---------------------------- MODULE Spec2Model ----------------------------
(***************************************************************************)
(* The QUIC connection manager of src/network/rtc/endpoint/connection.rs   *)
(* as a state machine.  The manager's fields are variables of their own;   *)
(* the quiche engine it wraps is the record `connection`, whose answers    *)
(* (bytes accepted, would-block, errors, what a datagram carries) are the  *)
(* nondeterministic inputs of the handlers.  One action is one whole call  *)
(* of a handler.                                                           *)
(***************************************************************************)
EXTENDS Integers, Sequences, FiniteSets, TLC

\* ------------------------------------------------------------- bounds
Cap == 2            \* recv_data_capacity handed to Connection::new
MaxPayload == 2     \* longest payload of one stream_reliable_send
MaxSends == 3
MaxPeer == 3        \* bytes the peer writes on the main stream in one run
MaxTime == 3        \* last instant of the clock
IdleTimeout == 2    \* the engine's idle timeout, in clock ticks
MaxMsgs == 2        \* framed messages of the round trip
MaxBody == 2        \* longest body of a framed message
MaxChannels == 2     \* most channels of a mix format
MaxPeriod == 2       \* longest period, in frames
MaxIters == 2        \* iterations of the audio event loop in one run

\* ---------------------------------------------------------- constants
MAIN_STREAM_ID == 0
SERVER_REALTIME_START_ID == 3
None == -1          \* Option::None of an Instant or of a stream id
TargetRate == 48000 \* the sample rate the constructor asks for

VARIABLES
    established_once,       \* Connection.established_once
    recv_captured,          \* Connection.recv_captured
    recv_target,            \* Connection.recv_target
    recv_data,              \* Connection.recv_data (a Vec<u8>, as a sequence)
    reliable_send_queue,    \* Connection.reliable_send_queue
    last_send_instant,      \* Connection.last_send_instant
    next_timeout_instant,   \* Connection.next_timeout_instant (None or an instant)
    connection,             \* Connection.connection: the quiche engine
    now,                    \* Instant::now()
    n_sends,                \* history: the number of stream_reliable_send calls
    sent_log,               \* history: the payloads of stream_reliable_send, concatenated in call order
    peer_written,           \* history: bytes of the peer's main-stream write sequence the engine has received
    given,                  \* history: bytes of that sequence handed to the application by completed reads
    cycle,                  \* history: the read target announced last, the reports and reads made for
                            \* it, and whether every byte captured before it was read (clean)
    closing_reported,       \* history: recv_data_process has returned Closing
    app,                    \* the application: the framing receiver of the round trip, and the
                            \* instants at which the keepalive worker last pinged and flushed
    audio,                  \* the audio output: the OS resources held, the Device built from
                            \* them, and the position of its event loop
    last                    \* the handler called last, with what it returned

vars == <<established_once, recv_captured, recv_target, recv_data,
          reliable_send_queue, last_send_instant, next_timeout_instant,
          connection, now, n_sends, sent_log, peer_written, given, cycle,
          closing_reported, app, audio, last>>

mgr_recv == <<recv_captured, recv_target, recv_data>>
mgr_time == <<last_send_instant, next_timeout_instant>>
history == <<n_sends, sent_log, peer_written, given, cycle, closing_reported>>

\* every variable of the connection manager and of its environment
net == <<established_once, recv_captured, recv_target, recv_data,
         reliable_send_queue, last_send_instant, next_timeout_instant,
         connection, now, n_sends, sent_log, peer_written, given, cycle,
         closing_reported, app>>

\* ------------------------------------------------------------ helpers
Min(a, b) == IF a <= b THEN a ELSE b

\* vec![0; n]
Zeros(n) == [i \in 1..n |-> 0]

\* The i-th byte of a tagged stream is i: every byte is distinct, so a byte
\* lost, repeated or out of place shows.
Tagged(from, n) == [i \in 1..n |-> from + i]

\* Vec::with_capacity(c): an empty vector.
with_capacity(c) == <<>>

\* Vec::resize(new_len, value)
resize(vec, new_len, value) ==
    IF new_len <= Len(vec) THEN SubSeq(vec, 1, new_len)
    ELSE vec \o [i \in 1..(new_len - Len(vec)) |-> value]

\* Vec::shrink_to(min_capacity) lowers the capacity to no less than the
\* length: the length and the contents stay.
shrink_to(vec, min_capacity) == vec

\* recv_data.capacity(): fixed at construction, the vector never grows.
capacity(vec) == Cap

\* buf[off .. off + Len(bytes)] = bytes, as the engine's stream_recv fills a slice.
WriteAt(buf, off, bytes) ==
    [i \in 1..Len(buf) |->
        IF off < i /\ i <= off + Len(bytes) THEN bytes[i - off] ELSE buf[i]]

\* What a handler returned, and (io) the state the engine was in when the
\* handler called its stream_send or stream_recv on the main stream.
Ret(op, res) == [op |-> op, res |-> res, out |-> <<>>, path |-> "none",
                 nr |-> None, sent |-> 0, fired |-> FALSE, io |-> "none",
                 stop |-> "none"]

NoCycle == [n |-> None, notified |-> 0, reads |-> 0, clean |-> TRUE]

\* ------------------------------------------------------------ the engine
NoError == [set |-> FALSE, app |-> FALSE, err |-> 0, reason |-> ""]

NewEngine == [is_established |-> FALSE, is_closed |-> FALSE, is_draining |-> FALSE,
              local_error |-> NoError, timeout_instant |-> None,
              idle_instant |-> None, ack_eliciting_sent |-> FALSE,
              needs_ack_eliciting |-> FALSE,
              rx_main |-> <<>>, rx_fin |-> "none", rx_other |-> FALSE,
              main_open |-> FALSE, tx_main |-> <<>>, recv_count |-> 0]

\* The state of the connection, as the engine tells it.
EnginePhase(c) ==
    IF c.is_closed THEN "closed"
    ELSE IF c.is_draining THEN "draining"
    ELSE IF c.is_established THEN "established" ELSE "handshaking"

\* SendBuffer::new
SendBuffer(data) == [data |-> data, sent |-> 0]

\* What quiche's stream_send can answer for a slice: Ok(n) with n of its
\* bytes accepted, Err(Done) (would-block) or another error.
StreamSendAnswers(slice) ==
    {[t |-> "Ok", n |-> n] : n \in 0..Len(slice)}
        \cup {[t |-> "Done", n |-> 0], [t |-> "Err", n |-> 0]}

\* The bug of an offset that is not advanced: the accepted bytes are offered again.
AfterOk_NoAdvance(send_buf, bytes_sent) == send_buf

\* An offset that is advanced one byte too far.
AfterOk_OffByOne(send_buf, bytes_sent) == [send_buf EXCEPT !.sent = @ + bytes_sent + 1]

\* send_buf.sent += bytes_sent
AfterOk(send_buf, bytes_sent) == [send_buf EXCEPT !.sent = @ + bytes_sent]

\* A buffer that counts as sent as soon as the engine has answered Ok.
FullySent_Eager(send_buf) == TRUE

\* A buffer that counts as sent only past its end.
FullySent_Strict(send_buf) == send_buf.sent > Len(send_buf.data)

\* A buffer with no bytes that never counts as sent.
FullySent_NonEmpty(send_buf) ==
    send_buf.sent >= Len(send_buf.data) /\ Len(send_buf.data) > 0

\* send_buf.sent >= send_buf.data.len()
FullySent(send_buf) == send_buf.sent >= Len(send_buf.data)

\* A count that keeps only the last acceptance.
Accumulate_LastOnly(total_bytes_sent, bytes_sent) == bytes_sent

\* total_bytes_sent += bytes_sent
Accumulate(total_bytes_sent, bytes_sent) == total_bytes_sent + bytes_sent

\* A failing buffer that is dropped from the queue.
OnError_DropFront(q) == Tail(q)

\* Err(e) => return Err(e): the queue is left as it is
OnError(q) == q

\* No drain attempt was made.
NoDrain == [queue |-> <<>>, tx |-> <<>>, ret |-> 0, ok |-> TRUE, stop |-> "none"]

\* The drain loop: every way one call of stream_reliable_send_next can end,
\* from queue q, with tx the bytes the engine has accepted on the main stream.
\* stop tells which return ended it.
RECURSIVE stream_reliable_send_next(_, _, _)
stream_reliable_send_next(q, tx, total_bytes_sent) ==
    IF q = <<>>
    THEN {[queue |-> q, tx |-> tx, ret |-> total_bytes_sent, ok |-> TRUE,
           stop |-> "empty"]}
    ELSE LET send_buf == Head(q)
             slice == SubSeq(send_buf.data, send_buf.sent + 1, Len(send_buf.data))
             One(a) ==
                 IF a.t = "Ok"
                 THEN LET buf2 == AfterOk(send_buf, a.n)
                          tx2 == tx \o SubSeq(slice, 1, a.n)
                          total2 == Accumulate(total_bytes_sent, a.n)
                      IN  IF FullySent(buf2)
                          THEN stream_reliable_send_next(Tail(q), tx2, total2)
                          ELSE {[queue |-> <<buf2>> \o Tail(q), tx |-> tx2,
                                 ret |-> total2, ok |-> TRUE, stop |-> "partial"]}
                 ELSE IF a.t = "Done"
                 THEN {[queue |-> q, tx |-> tx, ret |-> total_bytes_sent, ok |-> TRUE,
                        stop |-> "done"]}
                 ELSE {[queue |-> OnError(q), tx |-> tx, ret |-> total_bytes_sent,
                        ok |-> FALSE, stop |-> "error"]}
         IN  UNION {One(a) : a \in StreamSendAnswers(slice)}

\* stream_reliable_send(data_vec)
stream_reliable_send(data_vec) ==
    /\ \E o \in stream_reliable_send_next(
                    Append(reliable_send_queue, SendBuffer(data_vec)),
                    connection.tx_main, 0) :
          /\ reliable_send_queue' = o.queue
          /\ connection' = [connection EXCEPT !.tx_main = o.tx, !.main_open = TRUE]
          /\ last' = [Ret("stream_reliable_send", IF o.ok THEN "Ok" ELSE "Err")
                        EXCEPT !.sent = o.ret, !.io = EnginePhase(connection),
                               !.stop = o.stop]
    /\ sent_log' = sent_log \o data_vec
    /\ n_sends' = n_sends + 1
    /\ UNCHANGED <<established_once, mgr_recv, mgr_time, now, peer_written,
                   given, cycle, closing_reported>>

\* The application sends a payload of its choice: its bytes are the next
\* tags of the send sequence.
AppSend ==
    /\ n_sends < MaxSends
    /\ \E n \in 0..MaxPayload : stream_reliable_send(Tagged(Len(sent_log), n))
    /\ UNCHANGED <<app, audio>>

\* What one datagram handed to quiche's recv can carry.
Dg(kind, bytes) == [kind |-> kind, bytes |-> bytes]

\* Datagrams that carry no stream data.
ControlDatagrams ==
    {Dg(k, <<>>) : k \in {"ack", "handshake", "peer_close", "stateless_reset", "invalid"}}

\* Datagrams of the peer's streams; the peer's main-stream bytes are tagged.
StreamDatagrams ==
    {Dg(k, <<>>) : k \in {"fin", "other"}}
        \cup {Dg("data", Tagged(peer_written, n)) : n \in 1..Min(2, MaxPeer - peer_written)}

\* The datagrams the peer can send in the engine's state c.
Sendable(c, dg) ==
    CASE dg.kind \in {"data", "fin"} -> c.is_established /\ c.rx_fin = "none"
      [] dg.kind = "other" -> c.is_established
      [] dg.kind = "handshake" -> ~c.is_established
      [] OTHER -> TRUE

\* connection.recv(data, recv_info): the engine after the datagram.  A closed
\* or draining engine drops it; a processed packet restarts the idle timer
\* (idle_instant) and leaves it the engine's only timer;
\* a packet the engine rejects makes it close itself and return the error.
EngineRecv(c, dg, t) ==
    IF c.is_closed /\ dg.kind # "invalid" THEN c
    ELSE IF dg.kind = "stateless_reset" THEN [c EXCEPT !.is_closed = TRUE]
    ELSE IF c.is_draining /\ dg.kind # "invalid" THEN c
    ELSE LET c1 == [c EXCEPT !.recv_count = 1, !.timeout_instant = t + IdleTimeout,
                             !.idle_instant = t + IdleTimeout,
                             !.ack_eliciting_sent = FALSE]
         IN CASE dg.kind = "handshake" -> [c1 EXCEPT !.is_established = TRUE]
              [] dg.kind = "data" ->
                    [c1 EXCEPT !.rx_main = @ \o dg.bytes, !.main_open = TRUE]
              [] dg.kind = "fin" -> [c1 EXCEPT !.rx_fin = "pending", !.main_open = TRUE]
              [] dg.kind = "other" -> [c1 EXCEPT !.rx_other = TRUE]
              [] dg.kind = "peer_close" -> [c1 EXCEPT !.is_draining = TRUE]
              [] dg.kind = "invalid" ->
                    IF c.is_closed \/ c.is_draining \/ c.local_error.set THEN c
                    ELSE [c EXCEPT !.local_error =
                             [set |-> TRUE, app |-> FALSE, err |-> 10, reason |-> ""]]
              [] OTHER -> c1

\* Bytes of the peer's write sequence the datagram adds.
Carried(c, dg) == IF c.is_closed \/ c.is_draining THEN 0 ELSE Len(dg.bytes)

\* The main stream has data to read, or its FIN.
MainReadable(c) == c.rx_main # <<>> \/ c.rx_fin = "pending"

\* connection.stream_readable_next(): a stream with data to read, in the
\* engine's order; a stream it has returned is not returned again until it
\* is re-armed, so it can also answer None while a stream holds unread data.
StreamReadableNext(c) ==
    {None} \cup (IF MainReadable(c) THEN {MAIN_STREAM_ID} ELSE {})
           \cup (IF c.rx_other THEN {SERVER_REALTIME_START_ID} ELSE {})

\* connection.stream_recv(MAIN_STREAM_ID, out) with out of length out_len:
\* the first bytes of the unread data, as many as fit, and whether the
\* stream's end has been reached with them.
StreamRecv(c, out_len) ==
    LET n == Min(out_len, Len(c.rx_main))
        fin == c.rx_fin = "pending" /\ n = Len(c.rx_main)
    IN  [t |-> IF ~c.main_open THEN "Err"
               ELSE IF ~MainReadable(c) THEN "Done" ELSE "Ok",
         bytes |-> SubSeq(c.rx_main, 1, n),
         fin |-> fin,
         conn |-> [c EXCEPT !.rx_main = SubSeq(@, n + 1, Len(@)),
                            !.rx_fin = IF fin THEN "seen" ELSE @]]

\* connection.close(app, err, reason): Err(Done) when the engine is closed,
\* draining or already closing; closes at once when no packet was processed yet.
EngineClose(c, is_app, err, reason) ==
    IF c.is_closed \/ c.is_draining \/ c.local_error.set
    THEN [ok |-> FALSE, conn |-> c]
    ELSE [ok |-> TRUE,
          conn |-> [c EXCEPT
                      !.local_error = [set |-> TRUE, app |-> is_app, err |-> err,
                                       reason |-> reason],
                      !.is_closed = (c.recv_count = 0)]]

\* The bug of a latch that is never set.
LatchEstablished_Forgotten == FALSE

\* self.established_once = true
LatchEstablished == TRUE

\* The bug of a strict comparison: a target met exactly is not seen as met.
TargetMet_Strict(captured, target) == captured > target

\* recv_captured >= recv_target
TargetMet(captured, target) == captured >= target

\* The report counted for the read target announced last.
Notified(cy, res) ==
    IF res = "ReliableReadTarget"
    THEN [cy EXCEPT !.notified = Min(2, @ + 1)] ELSE cy

\* A closed engine taken for an open one.
Terminal_ClosedIgnored(c) == IF c.is_draining THEN "Draining" ELSE "Open"

\* A draining engine taken for an open one.
Terminal_DrainingIgnored(c) == IF c.is_closed THEN "Closed" ELSE "Open"

\* if self.connection.is_closed() { Closed } else if self.connection.is_draining() { Draining }
Terminal(c) ==
    IF c.is_closed THEN "Closed" ELSE IF c.is_draining THEN "Draining" ELSE "Open"

\* A latch that is taken to be set from the start.
Latched_Always(latch) == TRUE

\* if self.established_once { ... }
Latched(latch) == latch

\* recv_data_process(data, from_addr), data being the datagram dg.
recv_data_process(dg) ==
    /\ Sendable(connection, dg)
    /\ peer_written' = peer_written + Carried(connection, dg)
    /\ LET c1 == EngineRecv(connection, dg, now)
           Io(reads) == IF reads \/ reliable_send_queue # <<>>
                        THEN EnginePhase(c1) ELSE "none"
           DoneIo(res, conn, nr, drain, io) ==
               /\ connection' = conn
               /\ last' = [Ret("recv_data_process", res) EXCEPT
                             !.nr = nr, !.sent = drain.ret, !.io = io,
                             !.stop = drain.stop]
               /\ cycle' = Notified(cycle, res)
               /\ closing_reported' = (closing_reported \/ res = "Closing")
       IN
       IF dg.kind = "invalid"
       THEN /\ DoneIo("Err", c1, None, NoDrain, "none")
            /\ UNCHANGED <<established_once, mgr_recv, reliable_send_queue>>
       ELSE IF Latched(established_once)
       THEN IF Terminal(c1) # "Open"
            THEN /\ DoneIo(Terminal(c1), c1, None, NoDrain, "none")
                 /\ UNCHANGED <<established_once, mgr_recv, reliable_send_queue>>
            ELSE \E o \in stream_reliable_send_next(reliable_send_queue, c1.tx_main, 0) :
                 LET c2 == [c1 EXCEPT !.tx_main = o.tx,
                                      !.main_open = @ \/ reliable_send_queue # <<>>]
                 IN
                 /\ reliable_send_queue' = o.queue
                 /\ UNCHANGED established_once
                 /\ IF ~o.ok
                    THEN /\ DoneIo("Err", c2, None, o, Io(FALSE))
                         /\ UNCHANGED mgr_recv
                    ELSE \E next_readable_stream \in StreamReadableNext(c2) :
                         IF next_readable_stream = None
                         THEN /\ DoneIo("Nothing", c2, None, o, Io(FALSE))
                              /\ UNCHANGED mgr_recv
                         ELSE IF next_readable_stream # MAIN_STREAM_ID
                         THEN /\ DoneIo("StreamReadable", c2, next_readable_stream, o,
                                     Io(FALSE))
                              /\ UNCHANGED mgr_recv
                         ELSE IF TargetMet(recv_captured, recv_target)
                         THEN /\ DoneIo("ReliableReadTarget", c2, MAIN_STREAM_ID, o,
                                     Io(FALSE))
                              /\ UNCHANGED mgr_recv
                         ELSE LET r == StreamRecv(c2, recv_target - recv_captured)
                                  cl == EngineClose(r.conn, FALSE, 1, "Stream0Finished")
                              IN
                              /\ recv_data' = WriteAt(recv_data, recv_captured, r.bytes)
                              /\ UNCHANGED recv_target
                              /\ IF ~r.fin
                                 THEN /\ recv_captured' = recv_captured + Len(r.bytes)
                                      /\ DoneIo(IF TargetMet(recv_captured', recv_target)
                                                THEN "ReliableReadTarget" ELSE "Nothing",
                                                r.conn, MAIN_STREAM_ID, o, Io(TRUE))
                                 ELSE /\ UNCHANGED recv_captured
                                      /\ DoneIo(IF cl.ok THEN "Closing" ELSE "Err",
                                                cl.conn, MAIN_STREAM_ID, o, Io(TRUE))
       ELSE /\ UNCHANGED <<mgr_recv, reliable_send_queue>>
            /\ IF c1.is_established
               THEN /\ established_once' = LatchEstablished
                    /\ DoneIo("Established", c1, None, NoDrain, "none")
               ELSE /\ UNCHANGED established_once
                    /\ DoneIo(IF Terminal(c1) # "Open" THEN Terminal(c1) ELSE "Nothing",
                              c1, None, NoDrain, "none")
    /\ UNCHANGED <<mgr_time, now, n_sends, sent_log, given>>

\* A datagram arrives and the worker hands it to the connection.
Receive ==
    /\ \E dg \in ControlDatagrams \cup StreamDatagrams : recv_data_process(dg)
    /\ UNCHANGED <<app, audio>>

\* The same, on a connection whose peer sends no stream data.
ReceiveControl ==
    /\ \E dg \in ControlDatagrams : recv_data_process(dg)
    /\ UNCHANGED <<app, audio>>

\* The bug of a target that is not clamped.
ClampTarget_Unclamped(next_target, len) == next_target

\* A target that is always the whole buffer.
ClampTarget_Capacity(next_target, len) == len

\* if next_target > self.recv_data.len() { next_target = self.recv_data.len() }
ClampTarget(next_target, len) == IF next_target > len THEN len ELSE next_target

\* stream_reliable_next_read_target(next_target)
stream_reliable_next_read_target(next_target) ==
    /\ recv_captured' = 0
    /\ recv_target' = ClampTarget(next_target, Len(recv_data))
    /\ cycle' = [n |-> next_target, notified |-> 0, reads |-> 0,
                  clean |-> cycle.clean /\ (recv_captured = 0 \/ cycle.reads >= 1)]
    /\ last' = [Ret("stream_reliable_next_read_target", "Ok") EXCEPT !.nr = next_target]
    /\ UNCHANGED <<established_once, recv_data, reliable_send_queue, mgr_time,
                   connection, now, n_sends, sent_log, peer_written, given,
                   closing_reported>>

\* The application announces the length of its next record.
SetTarget ==
    /\ \E n \in 0..(Cap + 1) : stream_reliable_next_read_target(n)
    /\ UNCHANGED <<app, audio>>

\* The vector handed to the caller on the detaching path:
\* mem::replace(&mut self.recv_data, ..) followed by shrink_to(self.recv_target).
DetachedBuffer(data, target) == shrink_to(data, target)

\* The bug of a replacement that is allocated but not filled.
ReplacementBuffer_Empty(data) == with_capacity(capacity(data))

\* The receive buffer left behind on the detaching path:
\* Vec::with_capacity(capacity) followed by resize(capacity, 0).
ReplacementBuffer(data) ==
    resize(with_capacity(capacity(data)), capacity(data), 0)

\* The tail of stream_reliable_read once the target is met: copy into
\* read_copy when it is long enough, else detach the receive buffer.
\* data is recv_data as the call has filled it.
Deliver(read_copy_len, data, conn, io) ==
    /\ connection' = conn
    /\ IF read_copy_len >= recv_target
       THEN /\ recv_data' = data
            /\ last' = [Ret("stream_reliable_read", "Some") EXCEPT
                          !.out = SubSeq(data, 1, recv_target),
                          !.path = "copy", !.nr = recv_target, !.io = io]
       ELSE /\ recv_data' = ReplacementBuffer(data)
            /\ last' = [Ret("stream_reliable_read", "Vec") EXCEPT
                          !.out = DetachedBuffer(data, recv_target),
                          !.path = "detach", !.io = io]
    /\ cycle' = [cycle EXCEPT !.reads = Min(2, @ + 1)]
    /\ given' = IF cycle.reads = 0 THEN given + recv_target ELSE given

\* stream_reliable_read(read_copy), read_copy being of length read_copy_len.
stream_reliable_read(read_copy_len) ==
    /\ IF TargetMet(recv_captured, recv_target)
       THEN /\ Deliver(read_copy_len, recv_data, connection, "none")
            /\ UNCHANGED recv_captured
       ELSE LET r == StreamRecv(connection, recv_target - recv_captured)
                data == WriteAt(recv_data, recv_captured, r.bytes)
                cl == EngineClose(r.conn, FALSE, 1, "Stream0Finished")
                io == EnginePhase(connection)
            IN
            IF r.t = "Ok"
            THEN IF ~r.fin
                 THEN /\ recv_captured' = recv_captured + Len(r.bytes)
                      /\ IF TargetMet(recv_captured', recv_target)
                         THEN Deliver(read_copy_len, data, r.conn, io)
                         ELSE /\ recv_data' = data
                              /\ connection' = r.conn
                              /\ last' = [Ret("stream_reliable_read", "None")
                                            EXCEPT !.io = io]
                              /\ UNCHANGED <<cycle, given>>
                 ELSE /\ recv_data' = data
                      /\ connection' = cl.conn
                      /\ last' = [Ret("stream_reliable_read",
                                      IF cl.ok THEN "None" ELSE "Err")
                                    EXCEPT !.io = io]
                      /\ UNCHANGED <<recv_captured, cycle, given>>
            ELSE /\ last' = [Ret("stream_reliable_read",
                                 IF r.t = "Done" THEN "None" ELSE "Err")
                               EXCEPT !.io = io]
                 /\ UNCHANGED <<recv_captured, recv_data, connection, cycle, given>>
    /\ UNCHANGED <<established_once, recv_target, reliable_send_queue, mgr_time,
                   now, n_sends, sent_log, peer_written, closing_reported>>

\* The application reads the record into a buffer of its choice.
Read ==
    /\ \E n \in 0..Cap : stream_reliable_read(n)
    /\ UNCHANGED <<app, audio>>

\* stream_recv(stream_id, data), the pass-through the application drains a
\* realtime stream with.
stream_recv(stream_id) ==
    /\ stream_id = SERVER_REALTIME_START_ID
    /\ connection.rx_other
    /\ connection' = [connection EXCEPT !.rx_other = FALSE]
    /\ last' = [Ret("stream_recv", "Ok") EXCEPT !.nr = stream_id]
    /\ UNCHANGED <<established_once, mgr_recv, reliable_send_queue, mgr_time,
                   now, history>>

ReadOther == stream_recv(SERVER_REALTIME_START_ID) /\ UNCHANGED <<app, audio>>

\* close(err, reason)
close(err, reason) ==
    /\ LET cl == EngineClose(connection, FALSE, err, reason)
       IN  /\ connection' = cl.conn
           /\ last' = Ret("close", IF cl.ok THEN "Ok" ELSE "Err")
    /\ UNCHANGED <<established_once, mgr_recv, reliable_send_queue, mgr_time,
                   now, history>>

\* The application closes the connection.
Close == close(0, "Closed") /\ UNCHANGED <<app, audio>>

\* ------------------------------------------------------- timers
\* connection.send(packet_data): a packet, with the instant the pacer
\* releases it at, or Err(Done) when nothing is to be sent, or an error.  An
\* engine that is closing sends its CONNECTION_CLOSE and starts to drain.
\* An ACK-eliciting packet arms the loss timer, and restarts the idle timer
\* when it is the first one since a packet was received; a packet that only
\* acknowledges can be sent once a packet was received, and arms nothing.
\* A packet sent after send_ack_eliciting is ACK-eliciting.
EngineSend(c, t) ==
    IF c.is_closed \/ c.is_draining
    THEN {[t |-> "Done", at |-> t, conn |-> c]}
    ELSE {[t |-> "Done", at |-> t, conn |-> c], [t |-> "Err", at |-> t, conn |-> c]}
         \cup {[t |-> "Ok", at |-> at, conn |-> c2] :
                  at \in {t, t + 1},
                  c2 \in IF c.local_error.set
                         THEN {[c EXCEPT !.is_draining = TRUE, !.timeout_instant = t + 1]}
                         ELSE LET idle == IF c.ack_eliciting_sent /\ c.idle_instant # None
                                          THEN c.idle_instant ELSE t + IdleTimeout
                              IN  {[c EXCEPT !.ack_eliciting_sent = TRUE,
                                             !.needs_ack_eliciting = FALSE,
                                             !.idle_instant = idle,
                                             !.timeout_instant = Min(t + 1, idle)]}
                                     \cup (IF c.recv_count > 0 /\ ~c.needs_ack_eliciting
                                           THEN {c} ELSE {})}

\* connection.timeout_instant()
EngineTimeoutInstant(c) == IF c.is_closed THEN None ELSE c.timeout_instant

\* connection.on_timeout() at instant t: nothing when the timer has not
\* expired; else the drain timer or the idle timer closes the connection, or
\* the loss timer fires and is armed again, no later than the idle timer.
EngineOnTimeout(c, t) ==
    IF c.timeout_instant = None \/ c.timeout_instant > t THEN {c}
    ELSE IF c.is_draining \/ (c.idle_instant # None /\ c.idle_instant <= t)
    THEN {[c EXCEPT !.is_closed = TRUE]}
    ELSE {[c EXCEPT !.timeout_instant =
                       IF c.idle_instant = None THEN t + 1 ELSE Min(t + 1, c.idle_instant)]}

\* An earliest_send_time that does not exceed the stored instant replaces it all the same.
AdvanceSendInstant_Overwrite(stored, at) == at

\* if send_info.at > self.last_send_instant { self.last_send_instant = send_info.at }
AdvanceSendInstant(stored, at) == IF at > stored THEN at ELSE stored

\* get_next_send_packet(packet_data)
get_next_send_packet ==
    /\ \E a \in EngineSend(connection, now) :
          /\ connection' = a.conn
          /\ IF a.t = "Ok"
             THEN /\ last_send_instant' = AdvanceSendInstant(last_send_instant, a.at)
                  /\ UNCHANGED next_timeout_instant
                  /\ last' = [Ret("get_next_send_packet", "Some") EXCEPT !.nr = a.at]
             ELSE IF a.t = "Done"
             THEN /\ next_timeout_instant' = EngineTimeoutInstant(connection)
                  /\ UNCHANGED last_send_instant
                  /\ last' = Ret("get_next_send_packet", "None")
             ELSE /\ UNCHANGED mgr_time
                  /\ last' = Ret("get_next_send_packet", "Err")
    /\ UNCHANGED <<established_once, mgr_recv, reliable_send_queue, now, history>>

\* The comparison turned round: a deadline counts as elapsed while it is ahead.
Elapsed_Reversed(timeout_instant, t) == timeout_instant > t

\* if timeout_instant <= now
Elapsed(timeout_instant, t) == timeout_instant <= t

\* The bug of a single read of the deadline: the re-read is not compared.
TimeoutVerified_SingleRead(timeout_verify, t) == TRUE

\* if let Some(timeout_verify) = self.next_timeout_instant { if timeout_verify <= now
TimeoutVerified(timeout_verify, t) == timeout_verify # None /\ Elapsed(timeout_verify, t)

\* A cache that is read again once the timeout has been processed.
AfterTimeout_Refreshed(timeout_verify, c) == EngineTimeoutInstant(c)

\* self.connection.on_timeout(): the cache keeps the deadline read before it
AfterTimeout(timeout_verify, c) == timeout_verify

\* handle_possible_timeout()
handle_possible_timeout ==
    /\ LET Nothing(path) ==
               /\ last' = [Ret("handle_possible_timeout", "Nothing") EXCEPT
                             !.nr = next_timeout_instant', !.path = path]
               /\ UNCHANGED connection
       IN
       IF next_timeout_instant = None
       THEN /\ UNCHANGED next_timeout_instant
            /\ Nothing("absent")
       ELSE IF ~Elapsed(next_timeout_instant, now)
       THEN /\ UNCHANGED next_timeout_instant
            /\ Nothing("future")
       ELSE LET timeout_verify == EngineTimeoutInstant(connection)
            IN IF TimeoutVerified(timeout_verify, now)
               THEN \E c \in EngineOnTimeout(connection, now) :
                       /\ connection' = c
                       /\ next_timeout_instant' = AfterTimeout(timeout_verify, c)
                       /\ last' = [Ret("handle_possible_timeout",
                                       IF c.is_closed THEN "Closed"
                                       ELSE IF c.is_draining THEN "Draining"
                                       ELSE "Happened")
                                     EXCEPT !.fired = TRUE, !.path = "fired"]
               ELSE /\ next_timeout_instant' = timeout_verify
                    /\ Nothing(IF timeout_verify = None
                               THEN "reread_absent" ELSE "reread_future")
    /\ UNCHANGED <<established_once, mgr_recv, reliable_send_queue,
                   last_send_instant, now, history>>

\* A ping that is due whatever instant the last packet was stored with.
PingDue_Always(stored, duration, t) == TRUE

\* A ping that is not yet due at the instant the duration ends.
PingDue_Strict(stored, duration, t) == stored + duration < t

\* if self.last_send_instant + duration <= Instant::now()
PingDue(stored, duration, t) == stored + duration <= t

\* connection.send_ack_eliciting(): the next packet is to carry a PING;
\* nothing on a closed or draining connection.
EngineSendAckEliciting(c) ==
    IF c.is_closed \/ c.is_draining THEN c ELSE [c EXCEPT !.needs_ack_eliciting = TRUE]

\* send_ping_if_neccessary(duration); the engine's send_ack_eliciting can fail.
send_ping_if_neccessary(duration) ==
    /\ IF PingDue(last_send_instant, duration, now)
       THEN \E ok \in BOOLEAN :
               /\ last' = [Ret("send_ping_if_neccessary", IF ok THEN "true" ELSE "Err")
                             EXCEPT !.nr = duration]
               /\ connection' = IF ok THEN EngineSendAckEliciting(connection)
                                 ELSE connection
       ELSE /\ last' = [Ret("send_ping_if_neccessary", "false") EXCEPT !.nr = duration]
            /\ UNCHANGED connection
    /\ UNCHANGED <<established_once, mgr_recv, reliable_send_queue, mgr_time,
                   now, history>>

SendPing ==
    /\ \E d \in 0..IdleTimeout : send_ping_if_neccessary(d)
    /\ UNCHANGED <<app, audio>>

\* The worker asks for the next packet to send.
SendPacket == get_next_send_packet /\ UNCHANGED <<app, audio>>

\* The worker services the timer.
ServiceTimeout == handle_possible_timeout /\ UNCHANGED <<app, audio>>

\* The clock advances.
Tick ==
    /\ now < MaxTime
    /\ now' = now + 1
    /\ UNCHANGED <<established_once, mgr_recv, reliable_send_queue, mgr_time,
                   connection, history, app, audio, last>>

\* ------------------------------------------------- an idle connection
\* Traffic stops early enough for the idle deadline it arms to lie within
\* the instants of the clock.
TrafficUntil == now + IdleTimeout <= MaxTime

\* Datagrams of a peer that neither closes nor sends stream data.
QuietDatagrams == {Dg(k, <<>>) : k \in {"ack", "handshake"}}

ReceiveQuiet ==
    /\ TrafficUntil
    /\ \E dg \in QuietDatagrams : recv_data_process(dg)
    /\ UNCHANGED <<app, audio>>

\* The worker asks for the next packet; the engine has one only while there
\* is traffic.
SendQuiet ==
    /\ get_next_send_packet
    /\ last'.res = "Some" => TrafficUntil
    /\ UNCHANGED <<app, audio>>

\* ------------------------------------------------- draining the send queue
\* The worker hands the datagrams of a peer that stays connected to
\* recv_data_process, which drains the send queue once established.
ReceiveAck ==
    /\ \E dg \in QuietDatagrams : recv_data_process(dg)
    /\ UNCHANGED <<app, audio>>

\* The handshake completes.
Handshake == ReceiveAck /\ ~established_once /\ established_once'

\* The peer has opened the window: the engine accepts bytes of the front
\* buffer, or completes it.
DrainProgress ==
    /\ ReceiveAck
    /\ \/ Len(connection'.tx_main) > Len(connection.tx_main)
       \/ Len(reliable_send_queue') < Len(reliable_send_queue)

\* ------------------------------------------------- the keepalive worker
\* At every instant the worker calls send_ping_if_neccessary, then sends the
\* packets of get_next_send_packet until there is none, and the peer
\* acknowledges what elicits an acknowledgement before the next instant.
\* There is no other traffic: the engine has a packet exactly when a ping
\* was asked for, and the peer sends nothing of its own.
\* The ping interval leaves the idle timeout room for a paced packet and
\* for one round of the worker.
KeepaliveDurations == 0..(IdleTimeout - 2)

KaHandshake ==
    /\ ~established_once
    /\ recv_data_process(Dg("handshake", <<>>))
    /\ UNCHANGED <<app, audio>>

KaPing ==
    /\ established_once
    /\ app.pinged_at < now \/ app.pinged_at = None
    /\ \E d \in KeepaliveDurations : send_ping_if_neccessary(d)
    /\ last'.res # "Err"
    /\ UNCHANGED audio
    /\ app' = [app EXCEPT !.pinged_at = now]

KaSend ==
    /\ app.pinged_at = now
    /\ get_next_send_packet
    /\ last'.res # "Err"
    /\ connection.needs_ack_eliciting <=> last'.res = "Some"
    /\ UNCHANGED audio
    /\ app' = IF last'.res = "None" THEN [app EXCEPT !.flushed_at = now] ELSE app

\* The peer acknowledges; it sends nothing of its own.
KaAck ==
    /\ established_once
    /\ connection.ack_eliciting_sent
    /\ recv_data_process(Dg("ack", <<>>))
    /\ UNCHANGED <<app, audio>>

KaTimeout ==
    /\ established_once
    /\ handle_possible_timeout
    /\ UNCHANGED <<app, audio>>

KaTick ==
    /\ app.flushed_at = now
    /\ ~connection.ack_eliciting_sent
    /\ ~connection.needs_ack_eliciting
    /\ Tick

\* ------------------------------------------------- the round trip
\* Two connected endpoints, as one connection looped back: the bytes its
\* engine accepts on the main stream are the bytes the peer's engine
\* receives, in order.  The sender frames each message with a one-byte
\* length prefix; the receiver reads prefix and body by read targets.
Frame(body) == <<Len(body)>> \o body

PrefixSize == Len(Frame(<<>>))

BodyBytes == {1, 2}

Bodies == UNION {[1..n -> BodyBytes] : n \in 0..MaxBody}

\* The sender passes one framed message to stream_reliable_send.
RtSend ==
    /\ n_sends < MaxMsgs
    /\ \E body \in Bodies :
          /\ stream_reliable_send(Frame(body))
          /\ UNCHANGED audio
          /\ app' = [app EXCEPT !.msgs = Append(@, body)]

\* Datagrams that carry the next bytes the sender's engine has accepted.
LoopDatagrams ==
    {Dg(k, <<>>) : k \in {"ack", "handshake"}}
        \cup {Dg("data", SubSeq(connection.tx_main, peer_written + 1, peer_written + n)) :
                n \in 1..Min(2, Len(connection.tx_main) - peer_written)}

RtReceive ==
    /\ \E dg \in LoopDatagrams : recv_data_process(dg)
    /\ UNCHANGED <<app, audio>>

\* The receiver sets the read target to the prefix size.
RtSetHeaderTarget ==
    /\ app.phase = "idle"
    /\ stream_reliable_next_read_target(PrefixSize)
    /\ UNCHANGED audio
    /\ app' = [app EXCEPT !.phase = "hdr"]

\* The receiver reads: a prefix read gives the length to announce next, a
\* body read gives the next body.
RtRead ==
    /\ app.phase \in {"hdr", "body"}
    /\ \E n \in 0..Cap : stream_reliable_read(n)
    /\ UNCHANGED audio
    /\ app' = IF last'.path = "none" THEN app
              ELSE IF app.phase = "hdr"
              THEN [app EXCEPT !.phase = "len", !.len = last'.out[1]]
              ELSE [app EXCEPT !.phase = "idle", !.bodies = Append(@, last'.out)]

\* The receiver sets the read target to the decoded length.
RtSetBodyTarget ==
    /\ app.phase = "len"
    /\ stream_reliable_next_read_target(app.len)
    /\ UNCHANGED audio
    /\ app' = [app EXCEPT !.phase = "body"]

\* ------------------------------------------------- the audio output
\* A format the mixer reports, as GetMixFormat allocates it.
MixFormats ==
    { [tag |-> tag, sub |-> sub, bits |-> bits, align |-> ch * (bits \div 8),
       rate |-> rate, avg |-> rate * ch * (bits \div 8), channels |-> ch,
       mask |-> 2 ^ ch - 1] :
        tag \in {"extensible", "pcm"}, sub \in {"float", "pcm"},
        bits \in {16, 32, 64}, rate \in {44100, TargetRate},
        ch \in 1..MaxChannels }

NoFormat == [tag |-> "none", sub |-> "none", bits |-> 0, align |-> 0,
             rate |-> 0, avg |-> 0, channels |-> 0, mask |-> 0]

\* if !cmp_guid(&format_guid, &KSDATAFORMAT_SUBTYPE_IEEE_FLOAT) { ... }
CoerceSubFormat(f) ==
    IF f.sub # "float"
    THEN [f EXCEPT !.sub = "float", !.bits = 32, !.align = f.channels * 4]
    ELSE f

\* if (*format_ext).Format.nSamplesPerSec != 48000 { ... }
CoerceRate(f) ==
    IF f.rate # TargetRate
    THEN [f EXCEPT !.rate = TargetRate, !.avg = TargetRate * f.channels * 4]
    ELSE f

\* the format behind format_test
Coerce(f) == CoerceRate(CoerceSubFormat(f))

\* The interface wrappers of the windows crate release their interface when
\* they are dropped; a raw allocation and a HANDLE are plain values.
Interfaces == {"device", "manager", "writer", "volume_control"}

\* What a return, or the drop of a Device, leaves open.
DropLocals(held) == held \ Interfaces

\* The steps of new_from_default_playback at which the OS can refuse.
NewSteps == <<"GetDefaultAudioEndpoint", "Activate", "IsOffloadCapable",
              "SetClientProperties", "GetMixFormat", "IsFormatSupported",
              "GetCurrentSharedModeEnginePeriod", "GetSharedModeEnginePeriod",
              "InitializeSharedAudioStream", "GetService_writer",
              "CreateEventW", "SetEventHandle", "GetBufferSize",
              "GetService_volume">>

StepIndex(step) == CHOOSE i \in 1..Len(NewSteps) : NewSteps[i] = step

\* The OS refuses at step fail ("none": at no step); Passed(fail, step) says
\* that the constructor gets past step.
Passed(fail, step) == fail = "none" \/ StepIndex(step) < StepIndex(fail)

NoDevice == [phase |-> "none", held |-> {}, mix |-> NoFormat,
             submitted |-> NoFormat, channels |-> 0, channel_mask |-> 0,
             frame_period |-> 0, buffer_size |-> 0, running |-> FALSE,
             iters |-> 0, callbacks |-> 0, acquired |-> 0, released |-> 0,
             stops |-> 0, it |-> "none", buf_len |-> 0, get_frames |-> 0,
             release_frames |-> 0, quit |-> FALSE, result |-> FALSE,
             wait |-> "none", events |-> <<>>]

\* Device::new_from_default_playback: the outcome for a mix format, a period,
\* the engine's current period cur and range lo..hi, the buffer size bs, the
\* channel count ec of the engine's current format, and the step at which
\* the OS refuses.
new_from_default_playback(mix, period, cur, lo, hi, bs, ec, fail) ==
    LET format_test == Coerce(mix)
        \* the resources acquired so far at each exit, in acquisition order
        h_dev == {"device"}
        h_mgr == h_dev \union {"manager"}
        h_fmt == h_mgr \union {"format"}
        h_cur == h_fmt \union {"engine_format"}
        h_ini == h_cur \ {"format"}            \* CoTaskMemFree(format)
        h_wri == h_ini \union {"writer"}
        h_evt == h_wri \union {"event"}
        h_all == h_evt \union {"volume_control"}
        none(held, sub) ==
            [NoDevice EXCEPT !.phase = "failed", !.held = DropLocals(held),
                             !.mix = mix, !.submitted = sub]
    IN  IF ~Passed(fail, "GetDefaultAudioEndpoint") THEN none({}, NoFormat)
        ELSE IF ~Passed(fail, "Activate") THEN none(h_dev, NoFormat)
        ELSE IF ~Passed(fail, "IsOffloadCapable") THEN none(h_mgr, NoFormat)
        ELSE IF ~Passed(fail, "SetClientProperties") THEN none(h_mgr, NoFormat)
        ELSE IF ~Passed(fail, "GetMixFormat") THEN none(h_mgr, NoFormat)
        ELSE IF mix.tag # "extensible" THEN none(h_fmt, NoFormat)
        ELSE IF ~Passed(fail, "IsFormatSupported") THEN none(h_fmt, format_test)
        ELSE IF ~Passed(fail, "GetCurrentSharedModeEnginePeriod")
             THEN none(h_fmt, format_test)
        ELSE IF cur # period /\ ~Passed(fail, "GetSharedModeEnginePeriod")
             THEN none(h_cur, format_test)
        ELSE IF cur # period /\ (lo > period \/ hi < period)
             THEN none(h_cur, format_test)
        ELSE IF ~Passed(fail, "InitializeSharedAudioStream")
             THEN none(h_cur, format_test)
        ELSE IF ~Passed(fail, "GetService_writer") THEN none(h_ini, format_test)
        ELSE IF ~Passed(fail, "CreateEventW") THEN none(h_wri, format_test)
        ELSE IF ~Passed(fail, "SetEventHandle") THEN none(h_evt, format_test)
        ELSE IF ~Passed(fail, "GetBufferSize") THEN none(h_evt, format_test)
        ELSE IF bs < period THEN none(h_evt, format_test)
        ELSE IF ~Passed(fail, "GetService_volume") THEN none(h_evt, format_test)
        ELSE [NoDevice EXCEPT !.phase = "built", !.held = h_all, !.mix = mix,
                              !.submitted = format_test,
                              !.channels = ec,
                              !.channel_mask = 2 ^ ec - 1,
                              !.frame_period = period, !.buffer_size = bs]

\* The application builds the output device.
AudioNew ==
    /\ audio.phase = "none"
    /\ \E mix \in MixFormats, period \in 1..MaxPeriod, cur \in 1..MaxPeriod,
          lo \in 1..MaxPeriod, hi \in 1..MaxPeriod,
          bs \in 1..(MaxPeriod + 1), ec \in 1..MaxChannels,
          fail \in {NewSteps[i] : i \in 1..Len(NewSteps)} \union {"none"} :
            /\ lo <= hi
            /\ audio' = new_from_default_playback(mix, period, cur, lo, hi, bs, ec, fail)
    /\ last' = Ret("new_from_default_playback",
                   IF audio'.phase = "built" THEN "Some" ELSE "None")
    /\ UNCHANGED net

\* A buffer length that forgets the channels.
NumFloats_FramesOnly(frame_period, channels) == frame_period

\* let num_floats = self.frame_period * self.channels
NumFloats(frame_period, channels) == frame_period * channels

\* What WaitForSingleObject can answer.
WaitResults == {"WAIT_OBJECT_0", "WAIT_TIMEOUT", "WAIT_FAILED",
                "WAIT_ABANDONED", "other"}

\* A wait that takes a timeout for the signal.
Signaled_OrTimeout(wait) == wait \in {"WAIT_OBJECT_0", "WAIT_TIMEOUT"}

\* Foundation::WAIT_OBJECT_0 => {}
Signaled(wait) == wait = "WAIT_OBJECT_0"

\* Device::wait_for_next_output
wait_for_next_output(wait, get_ok) ==
    IF ~Signaled(wait)
    THEN IF wait = "WAIT_TIMEOUT" THEN "Ok(None)" ELSE "Err"
    ELSE IF get_ok THEN "Ok(Some)" ELSE "Err"

\* if !self.release_output() { return false; }
ReleaseFailed(rel_ok) == ~rel_ok

\* Device::start: the priming read and IAudioClient::Start.
StartSteps == {"GetCurrentPadding", "GetBuffer", "ReleaseBuffer", "Start"}

\* Device::run_output_event_loop up to its first wait.
run_output_event_loop ==
    /\ audio.phase \in {"built", "returned"}
    /\ audio.iters < MaxIters
    /\ \E fail \in StartSteps \union {"none"} :
         audio' = IF fail = "none"
                  THEN [audio EXCEPT !.phase = "loop", !.running = TRUE,
                                     !.it = "none", !.quit = FALSE,
                                     !.wait = "none", !.events = <<>>]
                  ELSE [audio EXCEPT !.phase = "returned", !.result = FALSE,
                                     !.it = "none", !.quit = FALSE,
                                     !.wait = "none", !.events = <<>>]
    /\ last' = Ret("run_output_event_loop",
                   IF audio'.phase = "loop" THEN "started" ELSE "false")
    /\ UNCHANGED net

\* One iteration of the loop: the wait, the acquisition, the callback and
\* the release, then the break and stop() when the callback asked to quit.
\* quit is the callback's answer, the other inputs are the OS's.
LoopIteration ==
    /\ audio.phase = "loop"
    /\ audio.iters < MaxIters
    /\ \E wait \in WaitResults, get_ok \in BOOLEAN, quit \in BOOLEAN,
          rel_ok \in BOOLEAN, stop_ok \in BOOLEAN :
         LET next == wait_for_next_output(wait, get_ok)
             acq  == Signaled(wait) /\ get_ok
             got  == next = "Ok(Some)"
             a1 == [audio EXCEPT
                      !.iters = @ + 1,
                      !.wait = wait,
                      !.events = <<"WaitForSingleObject">>
                                 \o (IF Signaled(wait) THEN <<"GetBuffer">> ELSE <<>>)
                                 \o (IF got THEN <<"callback", "ReleaseBuffer">> ELSE <<>>),
                      !.it = next,
                      !.quit = got /\ quit,
                      !.acquired = @ + (IF acq THEN 1 ELSE 0),
                      !.get_frames = IF Signaled(wait) THEN audio.frame_period ELSE 0,
                      !.buf_len = IF got
                                  THEN NumFloats(audio.frame_period, audio.channels)
                                  ELSE 0,
                      !.callbacks = @ + (IF got THEN 1 ELSE 0),
                      !.released = @ + (IF got THEN 1 ELSE 0),
                      !.release_frames = IF got THEN audio.frame_period ELSE 0]
         IN  /\ audio' =
                  IF got /\ ReleaseFailed(rel_ok)
                  THEN [a1 EXCEPT !.phase = "returned", !.result = FALSE]
                  ELSE IF got /\ quit
                  THEN [a1 EXCEPT !.phase = "returned", !.stops = @ + 1,
                                  !.events = @ \o <<"Stop">>,
                                  !.result = stop_ok,
                                  !.running = ~stop_ok]
                  ELSE a1
             /\ last' = [Ret("run_output_event_loop",
                             IF audio'.phase = "loop" THEN "looping"
                             ELSE IF audio'.result THEN "true" ELSE "false")
                         EXCEPT !.path = IF got /\ ReleaseFailed(rel_ok)
                                         THEN "release failed"
                                         ELSE IF got /\ quit THEN "quit"
                                         ELSE next]
    /\ UNCHANGED net

\* The Device is dropped: its fields are dropped in turn.
AudioDrop ==
    /\ audio.phase \in {"built", "returned"}
    /\ audio' = [audio EXCEPT !.phase = "dropped", !.held = DropLocals(@)]
    /\ last' = Ret("drop", "Ok")
    /\ UNCHANGED net

Init ==
    /\ established_once = FALSE
    /\ recv_captured = 0
    /\ recv_target = 0
    /\ recv_data = resize(with_capacity(Cap), Cap, 0)
    /\ reliable_send_queue = <<>>
    /\ last_send_instant = 0
    /\ next_timeout_instant = None
    /\ connection = NewEngine
    /\ now = 0
    /\ n_sends = 0
    /\ sent_log = <<>>
    /\ peer_written = 0
    /\ given = 0
    /\ cycle = NoCycle
    /\ closing_reported = FALSE
    /\ app = [phase |-> "idle", len |-> 0, bodies |-> <<>>, msgs |-> <<>>,
              pinged_at |-> None, flushed_at |-> None]
    /\ audio = NoDevice
    /\ last = Ret("new", "Ok")

Next == Receive \/ SetTarget \/ Read \/ ReadOther \/ Close

Spec == Init /\ [][Next]_vars

NextSend == AppSend \/ ReceiveControl \/ Close

SpecSend == Init /\ [][NextSend]_vars

NextTimer ==
    \/ Tick
    \/ SendPacket
    \/ ServiceTimeout
    \/ SendPing
    \/ ReceiveControl
    \/ Close

SpecTimer == Init /\ [][NextTimer]_vars

NextIdle ==
    \/ Tick
    \/ ReceiveQuiet
    \/ SendQuiet
    \/ ServiceTimeout

\* The clock advances and the worker keeps invoking handle_possible_timeout.
SpecIdle ==
    /\ Init /\ [][NextIdle]_vars
    /\ WF_vars(Tick)
    /\ WF_vars(ServiceTimeout)

NextAudio == AudioNew \/ run_output_event_loop \/ LoopIteration \/ AudioDrop

SpecAudio == Init /\ [][NextAudio]_vars

NextDrain == AppSend \/ ReceiveAck

\* recv_data_process keeps being called while the peer keeps opening the
\* window.
SpecDrain ==
    /\ Init /\ [][NextDrain]_vars
    /\ WF_vars(Handshake)
    /\ WF_vars(DrainProgress)

NextKeepalive ==
    \/ KaHandshake
    \/ KaPing
    \/ KaSend
    \/ KaAck
    \/ KaTimeout
    \/ KaTick

SpecKeepalive == Init /\ [][NextKeepalive]_vars

NextRoundTrip ==
    \/ RtSend
    \/ RtReceive
    \/ RtSetHeaderTarget
    \/ RtRead
    \/ RtSetBodyTarget

SpecRoundTrip == Init /\ [][NextRoundTrip]_vars

\* ------------------------------------------------------------ claims
\* The step is a call of handler op: every handler records itself in last,
\* and only the clock's tick leaves last alone.
Called(op) == last'.op = op /\ now' = now

IsPrefix(a, b) == Len(a) <= Len(b) /\ SubSeq(b, 1, Len(a)) = a

\* The unsent remainder of a send queue: each buffer from its sent offset.
RECURSIVE Remainder(_)
Remainder(q) ==
    IF q = <<>> THEN <<>>
    ELSE SubSeq(Head(q).data, Head(q).sent + 1, Len(Head(q).data))
            \o Remainder(Tail(q))

\* C1: the bytes the engine has accepted on the main stream, followed by the
\* unsent remainder of the send queue, are the payloads of the
\* stream_reliable_send calls concatenated in call order: no byte is
\* duplicated, skipped or reordered, whatever the engine answers.
C1_AcceptedThenQueueIsSent ==
    connection.tx_main \o Remainder(reliable_send_queue) = sent_log

\* C1 witness: a drain run by recv_data_process has left two buffers queued,
\* the front one partly accepted.
C1_Witness ==
    /\ last.op = "recv_data_process"
    /\ last.sent > 0
    /\ Len(reliable_send_queue) >= 2
    /\ Head(reliable_send_queue).sent > 0
    /\ connection.tx_main # <<>>

\* C2: the first stream_reliable_read after a ReliableReadTarget report for
\* a target n <= capacity delivers exactly n bytes, the first n bytes of the
\* peer's write sequence not yet given to the application (an application
\* that has read every record it let the manager capture).
C2_ReadDeliversTarget ==
    (/\ last.op = "stream_reliable_read"
     /\ last.path # "none"
     /\ cycle.clean
     /\ cycle.reads = 1
     /\ cycle.notified >= 1
     /\ cycle.n # None
     /\ cycle.n <= Cap)
        => last.out = Tagged(given - cycle.n, cycle.n)

\* C3: 0 <= recv_captured <= recv_target <= length of the receive buffer, in
\* every state.
C3_CapturedTargetCapacity ==
    /\ 0 <= recv_captured
    /\ recv_captured <= recv_target
    /\ recv_target <= Len(recv_data)

\* C3 witness: a record partly assembled after a read has detached the buffer.
C3_Witness ==
    /\ 0 < recv_captured
    /\ recv_captured < recv_target
    /\ last.op = "recv_data_process"
    /\ given > 0

\* C4, as stated: ReliableReadTarget is reported at most once for a target,
\* and not before a target has been announced.
C4_ReportedExactlyOnce ==
    /\ cycle.notified <= 1
    /\ cycle.n = None => cycle.notified = 0

\* C4, amended: a recv_data_process call that is handed the main stream as
\* the next readable one reports ReliableReadTarget exactly when
\* recv_captured >= recv_target as it returns: on the call that makes
\* recv_captured reach recv_target, and again on every later such call.
C4_ReportedWhileTargetMet ==
    [][(Called("recv_data_process") /\ last'.nr = MAIN_STREAM_ID)
          => ((last'.res = "ReliableReadTarget") <=> (recv_captured' >= recv_target'))]_vars

\* C4 witness: the report has been made twice for one announced target.
C4_Witness ==
    /\ cycle.n # None
    /\ cycle.n > 0
    /\ cycle.notified = 2
    /\ last.res = "ReliableReadTarget"

\* C5: established_once never goes back to false; recv_data_process returns
\* Established on the call that sets it and on no other; a call that returns
\* ReliableReadTarget or StreamReadable starts with it set.
C5_EstablishedOnce ==
    [][/\ established_once => established_once'
       /\ (Called("recv_data_process") /\ last'.res = "Established")
             <=> (~established_once /\ established_once')
       /\ (Called("recv_data_process")
             /\ last'.res \in {"ReliableReadTarget", "StreamReadable"})
             => established_once]_vars

\* C5 witness: a ReliableReadTarget report on a connection established earlier.
C5_Witness ==
    /\ established_once
    /\ last.op = "recv_data_process"
    /\ last.res = "ReliableReadTarget"
    /\ recv_target > 0

\* C6: the buffer returned on the detaching path has length recv_target.
C6_DetachedHasTargetLength ==
    last.path = "detach" => Len(last.out) = recv_target

\* C7: after the detaching path the receive buffer has the capacity it was
\* constructed with as its length, and every byte of it is zero.
C7_ReplacementIsZeroed ==
    last.path = "detach"
        => /\ Len(recv_data) = Cap
           /\ \A i \in 1..Len(recv_data) : recv_data[i] = 0

\* C7 witness: a buffer that held received bytes has been detached.
C7_Witness ==
    /\ last.path = "detach"
    /\ recv_target > 0
    /\ \E i \in 1..Len(last.out) : last.out[i] # 0

\* C8: the bodies the receiver has obtained are a prefix, in order, of the
\* messages the sender has passed to stream_reliable_send (and are all of
\* them once as many bodies as messages are obtained).
C8_RoundTrip == IsPrefix(app.bodies, app.msgs)

\* C9: once the main stream's FIN has been consumed, a successful
\* recv_data_process has reported Closing; and no recv_data_process call that
\* is handed the main stream returns with the FIN next in it and unanswered.
C9_FinReportsClosing ==
    /\ (last.op = "recv_data_process" /\ last.res # "Err"
          /\ connection.rx_fin = "seen") => closing_reported
    /\ ~(/\ last.op = "recv_data_process"
         /\ last.nr = MAIN_STREAM_ID
         /\ last.res # "Err"
         /\ connection.rx_fin = "pending"
         /\ connection.rx_main = <<>>)

\* C10: handle_possible_timeout invokes on_timeout only when the cached
\* deadline and the deadline re-read from the engine have both elapsed;
\* otherwise it returns Nothing with the manager's deadline and leaves the
\* engine alone.
C10_TimeoutDoubleCheck ==
    [][Called("handle_possible_timeout")
          => /\ last'.fired
                  => /\ next_timeout_instant # None
                     /\ next_timeout_instant <= now
                     /\ connection.timeout_instant # None
                     /\ connection.timeout_instant <= now
                     /\ ~connection.is_closed
             /\ ~last'.fired
                  => /\ last'.res = "Nothing"
                     /\ last'.nr = next_timeout_instant'
                     /\ connection' = connection]_vars

\* C10 witness: on_timeout has been invoked.
C10_Witness ==
    /\ last.op = "handle_possible_timeout"
    /\ last.fired
    /\ last.res = "Happened"

\* C13 (as stated): a send_ping_if_neccessary with duration 0 never declines
\* to emit.
C13_PingZeroAlwaysEmits ==
    (last.op = "send_ping_if_neccessary" /\ last.nr = 0) => last.res # "false"

\* C13 (amended): send_ping_if_neccessary(duration) asks the engine for an
\* ACK-eliciting frame exactly when last_send_instant + duration <= now, and
\* returns false, leaving everything alone, otherwise; with duration 0 that
\* is every call made once the stored instant has been reached.
C13_PingWhenDue ==
    [][Called("send_ping_if_neccessary")
          => /\ (last'.res \in {"true", "Err"}) <=> (last_send_instant + last'.nr <= now)
             /\ (last'.res = "false") <=> (last_send_instant + last'.nr > now)
             /\ last_send_instant' = last_send_instant]_vars

\* C13 witness: a ping with duration 0 is declined right after
\* get_next_send_packet has stored a paced earliest_send_time.
C13_Witness ==
    /\ last.op = "send_ping_if_neccessary"
    /\ last.nr = 0
    /\ last.res = "false"
    /\ last_send_instant > now

\* C14: last_send_instant never decreases; get_next_send_packet sets it to
\* the later of its value and earliest_send_time when a packet is produced
\* and leaves it alone otherwise; no other operation changes it.
C14_LastSendInstantMonotone ==
    [][/\ last_send_instant' >= last_send_instant
       /\ last_send_instant' # last_send_instant
             => (Called("get_next_send_packet") /\ last'.res = "Some")
       /\ (Called("get_next_send_packet") /\ last'.res = "Some")
             => last_send_instant' =
                   (IF last'.nr > last_send_instant THEN last'.nr ELSE last_send_instant)
      ]_vars

\* C14 witness: a packet was produced whose earliest_send_time is earlier
\* than the stored instant, which was kept.
C14_Witness ==
    /\ last.op = "get_next_send_packet"
    /\ last.res = "Some"
    /\ last.nr < last_send_instant

\* handle_possible_timeout has reported Closed.
ClosedByTimeout == last.op = "handle_possible_timeout" /\ last.res = "Closed"

\* C11 (as stated): once the idle timer is armed and traffic has stopped, a
\* worker that keeps invoking handle_possible_timeout eventually gets Closed.
C11_IdleCloseReported == (connection.idle_instant # None) ~> ClosedByTimeout

\* C11 (amended): the same, for a manager whose next_timeout_instant holds a
\* deadline, which a get_next_send_packet that found nothing to send stores.
C11_IdleCloseReportedOnceCached ==
    (connection.idle_instant # None /\ next_timeout_instant # None) ~> ClosedByTimeout

\* C11 witness: Closed is reported for an established connection whose idle
\* timeout has elapsed.
C11_Witness ==
    /\ ClosedByTimeout
    /\ established_once
    /\ connection.idle_instant # None
    /\ connection.idle_instant <= now
    /\ now >= IdleTimeout

ClosedLocally == connection.local_error.set /\ connection.local_error.reason = "Closed"

\* recv_data_process was the last call and returned a result.
RecvReturned == last.op = "recv_data_process" /\ last.res # "Err"

\* C15 (as stated): after a successful close, a successful recv_data_process
\* returns Draining or Closed.
C15_AfterCloseDrainingOrClosed ==
    (RecvReturned /\ ClosedLocally) => last.res \in {"Draining", "Closed"}

\* C15 (amended): after a successful close, a successful recv_data_process
\* returns Draining or Closed exactly when the engine is draining or closed,
\* which it is once get_next_send_packet has produced the packet that
\* carries the close, or at once when no packet had been processed; until
\* then it answers as on an open connection.
C15_AfterCloseFollowsEngine ==
    (RecvReturned /\ ClosedLocally)
        => /\ (last.res = "Closed") <=> connection.is_closed
           /\ (last.res = "Draining") <=> (connection.is_draining /\ ~connection.is_closed)

\* C15 witness: Draining is reported after a close whose packet was sent, on
\* a connection that never latched established_once.
C15_Witness ==
    /\ RecvReturned
    /\ ClosedLocally
    /\ last.res = "Draining"
    /\ ~established_once

\* C16 (as stated): a handler calls stream_send or stream_recv on the main
\* stream only while the connection is established, neither handshaking nor
\* draining nor closed.
C16_MainStreamOnlyWhenEstablished == last.io \in {"none", "established"}

\* C16 (amended): recv_data_process keeps to it, its drain and its read
\* coming after the tests of established_once, is_closed and is_draining.
C16_RecvOnlyWhenEstablished ==
    last.op = "recv_data_process" => last.io \in {"none", "established"}

\* C16 witness: recv_data_process has read main-stream bytes on an
\* established connection.
C16_Witness ==
    /\ last.op = "recv_data_process"
    /\ last.io = "established"
    /\ last.res = "ReliableReadTarget"
    /\ recv_captured > 0

\* The send queue holds a buffer with no bytes.
EmptyQueued ==
    \E i \in 1..Len(reliable_send_queue) : Len(reliable_send_queue[i].data) = 0

\* Every byte handed to stream_reliable_send has been accepted, in order.
AllAccepted == reliable_send_queue = <<>> /\ connection.tx_main = sent_log

\* C17: an empty payload enqueued by stream_reliable_send completes: it adds
\* no byte to what the engine accepts, it leaves the queue, and the payloads
\* enqueued with it are all sent, whether the engine answers the zero-length
\* stream_send with zero bytes accepted or with would-block.
C17_EmptyPayloadCompletes == EmptyQueued ~> AllAccepted

\* C17 witness: an empty payload the engine would-blocked waits at the front
\* of the queue, with a payload behind it.
C17_Witness ==
    /\ Len(reliable_send_queue) >= 2
    /\ Len(reliable_send_queue[1].data) = 0
    /\ Len(reliable_send_queue[2].data) > 0
    /\ last.op = "stream_reliable_send"
    /\ last.res = "Ok"

\* C18 (as stated): between operations the buffer at the front of the queue
\* has sent < data.len.
C18_FrontUnsent ==
    reliable_send_queue # <<>>
        => Head(reliable_send_queue).sent < Len(Head(reliable_send_queue).data)

\* C18 (amended): between operations the front buffer has sent < data.len
\* unless it is an empty payload the engine has not answered with Ok; every
\* buffer has 0 <= sent <= data.len, and sent = 0 behind the front; the sent
\* offset of a front buffer that stays is never lowered.
C18_SentOffsets ==
    /\ [](\A i \in 1..Len(reliable_send_queue) :
            LET b == reliable_send_queue[i]
            IN  /\ 0 <= b.sent /\ b.sent <= Len(b.data)
                /\ b.sent < Len(b.data) \/ Len(b.data) = 0
                /\ i > 1 => b.sent = 0)
    /\ [][(reliable_send_queue # <<>>
            /\ Len(reliable_send_queue') = Len(reliable_send_queue) + (n_sends' - n_sends))
           => /\ Head(reliable_send_queue').data = Head(reliable_send_queue).data
              /\ Head(reliable_send_queue').sent >= Head(reliable_send_queue).sent]_vars

\* C18 witness: a partly sent buffer at the front, advanced by a drain of
\* recv_data_process, with an unsent one behind it.
C18_Witness ==
    /\ Len(reliable_send_queue) >= 2
    /\ Head(reliable_send_queue).sent > 0
    /\ Head(reliable_send_queue).sent < Len(Head(reliable_send_queue).data)
    /\ last.op = "recv_data_process"
    /\ last.sent > 0

\* C20: stream_reliable_send returns the number of bytes the engine accepted
\* during the call, no more than its window lets it; and on an established
\* connection, with recv_data_process called as the peer opens the window,
\* the queue empties and the engine has accepted every payload byte in
\* order.
C20_PartialSendThenDrain ==
    /\ [][Called("stream_reliable_send")
            => last'.sent = Len(connection'.tx_main) - Len(connection.tx_main)]_vars
    /\ (established_once /\ reliable_send_queue # <<>>) ~> AllAccepted

\* C20 witness: recv_data_process has drained the rest of a payload that
\* stream_reliable_send had left in the queue.
C20_Witness ==
    /\ last.op = "recv_data_process"
    /\ last.sent > 0
    /\ AllAccepted
    /\ Len(sent_log) >= 2
    /\ established_once

\* C19: stream_reliable_next_read_target(n) sets recv_target to the smaller
\* of n and the capacity of the receive buffer and recv_captured to 0, for
\* every n and in every state, and changes nothing else of the connection:
\* the receive buffer, the send queue, the engine and the cached instants
\* stay as they were.
C19_NextReadTargetClamps ==
    [][Called("stream_reliable_next_read_target")
        => /\ recv_target' = IF last'.nr > Cap THEN Cap ELSE last'.nr
           /\ recv_captured' = 0
           /\ Len(recv_data') = Cap
           /\ UNCHANGED <<recv_data, reliable_send_queue, established_once,
                          connection, last_send_instant,
                          next_timeout_instant>>]_vars

\* C19 witness: a target above the capacity has been requested while the
\* receive buffer held bytes of an earlier message.
C19_Witness ==
    /\ last.op = "stream_reliable_next_read_target"
    /\ last.nr > Cap
    /\ recv_target = Cap
    /\ recv_captured = 0
    /\ \E i \in 1..Len(recv_data) : recv_data[i] # 0

\* The event loop has taken a step.
LoopStepped == audio.phase = "loop" /\ audio' # audio

\* C21: after a successful start the audio loop ends only because the
\* callback returned quit; it then calls stop() and returns stop()'s result;
\* a failed wait, a failed acquisition and a failed release do not end it.
C21_LoopEndsOnlyOnQuit ==
    [][(LoopStepped /\ audio'.phase # "loop")
        => /\ audio'.quit
           /\ audio'.stops = audio.stops + 1
           /\ audio'.result = ~audio'.running]_vars

\* C22: every buffer handed to the callback has frame_period x channels
\* floats, the GetBuffer that produced it and the ReleaseBuffer that follows
\* it are made for frame_period frames, and frame_period and channels are
\* those of the construction ever after.
C22_BufferLength ==
    /\ [](audio.it = "Ok(Some)"
            => /\ audio.buf_len = audio.frame_period * audio.channels
               /\ audio.get_frames = audio.frame_period
               /\ audio.release_frames = audio.frame_period)
    /\ [][audio.phase \in {"built", "loop", "returned"}
            => /\ audio'.frame_period = audio.frame_period
               /\ audio'.channels = audio.channels
               /\ audio'.submitted = audio.submitted]_vars

\* C22 witness: a second buffer of a two-channel device with a period of
\* two frames has been handed to the callback.
C22_Witness ==
    /\ audio.it = "Ok(Some)"
    /\ audio.callbacks >= 2
    /\ audio.channels = 2
    /\ audio.frame_period = 2

\* C23: when new_from_default_playback has returned None, and when a Device
\* has been dropped, no OS resource acquired on the way is still open.
C23_NothingLeftOpen ==
    audio.phase \in {"failed", "dropped"} => audio.held = {}

\* C24: the format submitted to IsFormatSupported and to
\* InitializeSharedAudioStream is IEEE float, 32 bits, block align
\* channels x 4, 48000 Hz, 48000 x channels x 4 bytes per second, with the
\* channel count and mask the mixer reported.
C24_SubmittedIsCanonical ==
    audio.submitted # NoFormat
        => /\ audio.submitted.sub = "float"
           /\ audio.submitted.bits = 32
           /\ audio.submitted.align = audio.submitted.channels * 4
           /\ audio.submitted.rate = TargetRate
           /\ audio.submitted.avg = TargetRate * audio.submitted.channels * 4
           /\ audio.submitted.channels = audio.mix.channels
           /\ audio.submitted.mask = audio.mix.mask

\* C28: an iteration invokes the callback exactly once when the event was
\* signaled and the buffer acquired, and not at all on a timeout, a failed
\* or abandoned wait, an unknown wait result or a failed acquisition; a
\* buffer that was acquired is released once, after the callback, and
\* nothing follows the release but stop(); an iteration that fails acquires
\* and releases nothing.
C28_CallbackOncePerBuffer ==
    [][LoopStepped
        => LET acquired == audio'.wait = "WAIT_OBJECT_0" /\ audio'.it = "Ok(Some)"
               d(f) == audio'[f] - audio[f]
               body == IF acquired
                       THEN <<"WaitForSingleObject", "GetBuffer", "callback",
                              "ReleaseBuffer">>
                       ELSE IF audio'.wait = "WAIT_OBJECT_0"
                       THEN <<"WaitForSingleObject", "GetBuffer">>
                       ELSE <<"WaitForSingleObject">>
           IN  /\ d("callbacks") = (IF acquired THEN 1 ELSE 0)
               /\ d("acquired") = d("callbacks")
               /\ d("released") = d("acquired")
               /\ audio'.events \in {body, body \o <<"Stop">>}
               /\ audio'.wait # "WAIT_OBJECT_0" => audio'.it # "Ok(Some)"]_vars

\* C28 witness: after an iteration that handed a buffer to the callback, an
\* iteration whose wait failed has left the counts alone.
C28_Witness ==
    /\ audio.phase = "loop"
    /\ audio.wait = "WAIT_FAILED"
    /\ audio.it = "Err"
    /\ audio.callbacks = 1
    /\ audio.acquired = 1
    /\ audio.released = 1
    /\ audio.iters = 2

\* A handler has made a drain attempt on the send queue.
Drained == last'.stop # "none" /\ now' = now

\* The queue a drain attempt starts from: stream_reliable_send appends its
\* payload first.
DrainInput ==
    IF last'.op = "stream_reliable_send"
    THEN Append(reliable_send_queue,
                SendBuffer(SubSeq(sent_log', Len(sent_log) + 1, Len(sent_log'))))
    ELSE reliable_send_queue

\* C25 (as stated): a drain attempt stops only on an empty queue, on
\* would-block or on an error, not after a partial acceptance, and returns
\* the number of bytes the engine accepted during the attempt.
C25_DrainRetriesPartial ==
    [][Drained
        => /\ last'.stop \in {"empty", "done", "error"}
           /\ last'.stop # "error"
                => last'.sent = Len(connection'.tx_main) - Len(connection.tx_main)]_vars

\* C25 (amended): a drain attempt stops on an empty queue, on would-block,
\* on an error, or after a partial acceptance, which leaves the front buffer
\* with its offset advanced and bytes still to send; when it returns a
\* count, the count is the number of bytes the engine accepted during the
\* attempt.
C25_DrainStops ==
    [][Drained
        => /\ last'.stop \in {"empty", "partial", "done", "error"}
           /\ last'.stop = "empty" <=> reliable_send_queue' = <<>>
           /\ last'.stop = "partial"
                => Head(reliable_send_queue').sent
                     < Len(Head(reliable_send_queue').data)
           /\ last'.stop # "error"
                => last'.sent = Len(connection'.tx_main) - Len(connection.tx_main)]_vars

\* C25 witness: an attempt has completed one buffer and stopped after a
\* partial acceptance of the next.
C25_Witness ==
    /\ last.stop = "partial"
    /\ last.sent >= 2
    /\ Head(reliable_send_queue).sent = 1
    /\ Len(Head(reliable_send_queue).data) = 2

\* C26: when stream_send fails during a drain the error is returned and the
\* queue is what it was before the failing call: the buffers completed
\* earlier in the attempt are gone, the bytes they gave the engine stay
\* given, and every other buffer, the payload stream_reliable_send has just
\* appended included, is queued in order with its offset untouched.
C26_ErrorKeepsQueue ==
    [][(Drained /\ last'.stop = "error")
        => /\ last'.res = "Err"
           /\ reliable_send_queue' # <<>>
           /\ \E k \in 0..(Len(DrainInput) - 1) :
                reliable_send_queue' = SubSeq(DrainInput, k + 1, Len(DrainInput))
           /\ connection'.tx_main \o Remainder(reliable_send_queue') = sent_log']_vars

\* C26 witness: stream_reliable_send has completed the buffer queued before
\* and failed on the payload it appended.
C26_Witness ==
    /\ last.op = "stream_reliable_send"
    /\ last.res = "Err"
    /\ last.sent > 0
    /\ Len(reliable_send_queue) = 1
    /\ Head(reliable_send_queue).sent = 0
    /\ Len(Head(reliable_send_queue).data) > 0

\* C27 (as stated): every recv_data_process call that succeeds and returns
\* neither Established, Closed nor Draining makes a drain attempt, also
\* before the handshake has completed.
C27_DrainOnEveryReceive ==
    [][(Called("recv_data_process")
          /\ last'.res \notin {"Err", "Established", "Closed", "Draining"})
        => last'.stop # "none"]_vars

\* C27 (amended): recv_data_process makes a drain attempt exactly when
\* established_once was set before the call and the engine is neither closed
\* nor draining after the datagram; a call before the latch is set, the one
\* that returns Established included, makes none; the attempt comes before
\* the read of the main stream, so that a failing attempt returns the error
\* with nothing read.
C27_DrainOncePerEstablishedReceive ==
    [][Called("recv_data_process")
        => /\ ~established_once => last'.stop = "none"
           /\ last'.res \in {"Established", "Closed", "Draining"}
                => last'.stop = "none"
           /\ (established_once
                 /\ last'.res \in {"Nothing", "StreamReadable",
                                   "ReliableReadTarget", "Closing"})
                => last'.stop \in {"empty", "partial", "done"}
           /\ last'.stop = "error"
                => last'.res = "Err" /\ UNCHANGED mgr_recv]_vars

\* C27 witness: a call on an established connection has drained part of
\* the queue and reported nothing to read.
C27_Witness ==
    /\ last.op = "recv_data_process"
    /\ last.res = "Nothing"
    /\ last.stop = "partial"
    /\ last.sent > 0
    /\ established_once

\* C29: while next_timeout_instant is None, handle_possible_timeout leaves
\* the engine alone and returns Nothing(None); the cache changes only when
\* get_next_send_packet returns None, or inside handle_possible_timeout when
\* it is set and has elapsed; so on_timeout is never called before
\* get_next_send_packet has run dry, and after on_timeout the cache holds
\* the deadline the engine had before it.
C29_TimeoutCache ==
    [][/\ (Called("handle_possible_timeout") /\ next_timeout_instant = None)
            => /\ last'.res = "Nothing"
               /\ last'.nr = None
               /\ ~last'.fired
               /\ UNCHANGED <<connection, next_timeout_instant>>
       /\ next_timeout_instant' # next_timeout_instant
            => \/ Called("get_next_send_packet") /\ last'.res = "None"
               \/ /\ Called("handle_possible_timeout")
                  /\ next_timeout_instant # None
                  /\ next_timeout_instant <= now
       /\ (Called("handle_possible_timeout") /\ last'.fired)
            => next_timeout_instant' = EngineTimeoutInstant(connection)]_vars

\* C29 witness: on_timeout has fired, the engine has armed a later deadline
\* and the cache still holds the earlier one.
C29_Witness ==
    /\ last.op = "handle_possible_timeout"
    /\ last.fired
    /\ last.res = "Happened"
    /\ EngineTimeoutInstant(connection) # None
    /\ next_timeout_instant < EngineTimeoutInstant(connection)

\* C30: in the send queue only the front buffer can have sent > 0; a buffer
\* leaves the queue only from the front, and only with sent = data.len.
C30_OnlyFrontPartlySent ==
    /\ [](\A i \in 2..Len(reliable_send_queue) : reliable_send_queue[i].sent = 0)
    /\ [][Drained
            => \E k \in 0..Len(DrainInput) :
                  /\ Len(reliable_send_queue') = Len(DrainInput) - k
                  /\ \A i \in 2..Len(reliable_send_queue') :
                        reliable_send_queue'[i] = DrainInput[k + i]
                  /\ reliable_send_queue' # <<>>
                        => /\ reliable_send_queue'[1].data = DrainInput[k + 1].data
                           /\ reliable_send_queue'[1].sent >= DrainInput[k + 1].sent
                  /\ Len(connection'.tx_main) - Len(connection.tx_main)
                        >= Len(Remainder(SubSeq(DrainInput, 1, k)))]_vars
    /\ [][reliable_send_queue' # reliable_send_queue => Drained]_vars

\* C30 witness: a drain has removed the front buffer, which it completed,
\* and has partly sent the buffer that came behind it.
C30_Witness ==
    /\ last.op = "recv_data_process"
    /\ last.stop = "partial"
    /\ last.sent >= 2
    /\ Len(reliable_send_queue) >= 2
    /\ reliable_send_queue[1].sent > 0
    /\ reliable_send_queue[2].sent = 0

=============================================================================
